---------------------------- MODULE Spec2Model ----------------------------
(***************************************************************************)
(* Steering-wheel button decoder for the CSR8645 BT module.               *)
(*                                                                         *)
(* Two sketches are modelled side by side:                                 *)
(*   "ino"  = src/mazda3bk-bt.ino     (N = 10, 20 ms loop, MUTE/RESET)      *)
(*   "part" = src/unnamed/part_000    (N = 5, 10 ms loop, blocking delay   *)
(*                                      after every latch, POWER_EN)       *)
(*                                                                         *)
(* Numbers.  analogRead() is an integer 0..1023.  A voltage is held as an  *)
(* integer count of 1/10240 V (VoltUnit), so raw*5.0/1024 and the division *)
(* of the buffer sum by numReadings (10 or 5) are both exact.  On the AVR  *)
(* the same values are 32-bit floats: every reading raw*5/1024 and every   *)
(* partial sum of at most 10 of them has a numerator below 2^16 and is     *)
(* exact; only the final division by 10 or 5 rounds, by at most 2^-23      *)
(* relative, while a filtered voltage that differs from a band limit       *)
(* (a multiple of 0.01 V) differs from it by at least 1/51200 V.  So the   *)
(* float comparisons of the sketches agree with the exact comparisons      *)
(* used here.  Band limits are written in centivolts (3.70 V = 370).       *)
(*                                                                         *)
(* Time.  millis() is an unsigned 32-bit count of milliseconds, held as    *)
(* two 16-bit limbs <<high, low>> (TLC's own integers are 32-bit signed),  *)
(* with addition and subtraction modulo 2^32.  The statements of loop()    *)
(* other than delay() take no model time.                                  *)
(***************************************************************************)
EXTENDS Integers, Sequences, FiniteSets, TLC

VARIABLES
    sketch,   \* which of the two sketches is running: "ino" or "part"
    pc,       \* "boot" (before setup), "pulse" (inside setup's delay), "loop"
    level,    \* voltage now on the analog input, in centivolts
    mcu,      \* the sketch's globals, the clock and the output pins
    harness,  \* TRUE in a run that drives the band checks with synthetic input
    changes,  \* how often the input level has changed so far
    uptime,   \* milliseconds since the start of the run (never wraps)
    tickAt,   \* uptime at the start of the latest loop iteration
    run,      \* per band: consecutive evaluations that saw the band occupied
    entry,    \* per band: uptime of the first evaluation of that occupancy
    log,      \* per band: the writes to its pins since that occupancy began
    latches,  \* per band: how often it has been latched so far
    ticks,    \* number of loop iterations so far
    window    \* the latest converted samples, oldest first, at most numReadings

vars == <<sketch, pc, level, mcu, harness, changes, uptime, tickAt, run, entry,
          log, latches, ticks, window>>

-----------------------------------------------------------------------------
(* Bounds of the model *)

MaxUptime     == 3500  \* loop() is entered while fewer ms than this have passed since setup
MaxChanges    == 1     \* changes of the input level after power-up
MaxLiveUptime == 1200  \* the same limit in the runs checked for liveness
MaxSynthTicks == 6     \* band evaluations of a run with synthetic input
MaxWrapTicks  == 5     \* the same in a run that starts just before millis() wraps
MaxStepSpan   == 600   \* ms of a run in which the settled input steps once

-----------------------------------------------------------------------------
(* Configuration of the two sketches *)

InoCfg ==
    [ VOLTAGE_LOW_1  |-> 370, VOLTAGE_HIGH_1 |-> 390,
      VOLTAGE_LOW_2  |-> 230, VOLTAGE_HIGH_2 |-> 250,
      VOLTAGE_LOW_3  |-> 150, VOLTAGE_HIGH_3 |-> 180,
      DURATION_THRESHOLD_1 |-> 300,
      DURATION_THRESHOLD_2 |-> 3000,
      INITIAL_DELAY        |-> 3000,
      numReadings          |-> 10,
      loopDelay            |-> 20 ]

PartCfg ==
    [ VOLTAGE_LOW_1  |-> 385, VOLTAGE_HIGH_1 |-> 405,
      VOLTAGE_LOW_2  |-> 252, VOLTAGE_HIGH_2 |-> 272,
      VOLTAGE_LOW_3  |-> 178, VOLTAGE_HIGH_3 |-> 198,
      DURATION_THRESHOLD_1 |-> 3000,
      DURATION_THRESHOLD_2 |-> 300,
      INITIAL_DELAY        |-> 5000,
      numReadings          |-> 5,
      loopDelay            |-> 10 ]

Cfg(k) == IF k = "ino" THEN InoCfg ELSE PartCfg

Sketches == {"ino", "part"}
Bands    == 1..3

InoPins  == {"MUTE_PIN", "PREV_PIN", "NEXT_PIN", "RESET_PIN"}
PartPins == {"START_STOP_PIN", "PREV_PIN", "NEXT_PIN", "POWER_EN_PIN"}
Pins(k)  == IF k = "ino" THEN InoPins ELSE PartPins

\* Measured levels in centivolts: no button, Mute, Prev, Next.
NoButton   == 438
InoLevels  == {NoButton, 380, 240, 167}
PartLevels == {NoButton, 395, 262, 188}

\* The other measured levels: Mode, Vol+, Vol-.
OtherLevels == {313, 98, 41}

-----------------------------------------------------------------------------
(* Arithmetic *)

VoltUnit == 10 * 1024    \* counts per volt

\* The 10-bit converter with AVCC = 5 V as reference.
analogRead(cv) == (cv * 1024) \div 500

\* (float)(analogRead(pin) * 5.0) / 1024
ToVolts(r) == (r * 5 * VoltUnit) \div 1024

\* unsigned long: <<high limb, low limb>>
Limb == 65536

U32(n) == <<(n \div Limb) % Limb, n % Limb>>

\* the value of an unsigned long below 2^31
Val(u) == u[1] * Limb + u[2]

\* a + n modulo 2^32, for a natural number n
Plus(a, n) ==
    LET lo == a[2] + (n % Limb)
    IN  <<(a[1] + (n \div Limb) + (lo \div Limb)) % Limb, lo % Limb>>

\* a - b modulo 2^32
Minus(a, b) ==
    LET lo == a[2] - b[2]
    IN  <<(a[1] - b[1] - (IF lo < 0 THEN 1 ELSE 0)) % Limb, lo % Limb>>

\* a >= n, for a natural number n
NotBelow(a, n) ==
    \/ a[1] > (n \div Limb)
    \/ a[1] = (n \div Limb) /\ a[2] >= n % Limb

\* millis() - start
Elapsed(now, start) == Minus(now, start)

\* v >= limit and v <= limit for a limit given in centivolts
AtLeast(v, cv) == v * 100 >= cv * VoltUnit
AtMost(v, cv)  == v * 100 <= cv * VoltUnit

RECURSIVE SumSeq(_)
SumSeq(q) == IF q = <<>> THEN 0 ELSE Head(q) + SumSeq(Tail(q))

\* The element of a set of one element: names the result of one statement
\* so that the next statement is applied to it.
Only(S) == CHOOSE x \in S : TRUE

-----------------------------------------------------------------------------
(* Primitives of the Arduino core, as functions of the machine state s *)

digitalWrite(s, p, v) ==
    [s EXCEPT !.pin[p] = v,
              !.writes = Append(@, [pin |-> p, to |-> v, was |-> s.pin[p],
                                    at |-> s.millis])]

delay(s, ms) == [s EXCEPT !.millis = Plus(@, ms)]

-----------------------------------------------------------------------------
(* src/mazda3bk-bt.ino *)

\* ino_readVoltage without the advance of readIndex
ino_readVoltage_StuckIndex(s, r) ==
    LET n    == InoCfg.numReadings
        buf  == [s.readings EXCEPT ![s.readIndex + 1] = ToVolts(r)]
    IN  [s EXCEPT !.readings = buf,
                  !.filteredVoltage = SumSeq(buf) \div n]

ino_readVoltage(s, r) ==
    LET n    == InoCfg.numReadings
        buf  == [s.readings EXCEPT ![s.readIndex + 1] = ToVolts(r)]
        next == (s.readIndex + 1) % n
    IN  [s EXCEPT !.readings = buf,
                  !.readIndex = next,
                  !.filteredVoltage = SumSeq(buf) \div n]

\* ino_checkCondition1 clearing flag and timer only inside if (condition1Active)
ino_checkCondition1_ClearInside(s) ==
    IF AtLeast(s.filteredVoltage, InoCfg.VOLTAGE_LOW_1)
       /\ AtMost(s.filteredVoltage, InoCfg.VOLTAGE_HIGH_1)
    THEN IF ~s.condition1Active
         THEN IF s.startTime1 = U32(0)
              THEN [s EXCEPT !.startTime1 = s.millis]
              ELSE IF NotBelow(Elapsed(s.millis, s.startTime1), InoCfg.DURATION_THRESHOLD_1)
              THEN digitalWrite([s EXCEPT !.condition1Active = TRUE],
                                "MUTE_PIN", "HIGH")
              ELSE IF NotBelow(Elapsed(s.millis, s.startTime1), InoCfg.DURATION_THRESHOLD_2)
              THEN digitalWrite([s EXCEPT !.condition1Active = TRUE],
                                "RESET_PIN", "HIGH")
              ELSE s
         ELSE s
    ELSE IF s.condition1Active
         THEN [digitalWrite(digitalWrite(s, "MUTE_PIN", "LOW"), "RESET_PIN", "LOW")
                 EXCEPT !.condition1Active = FALSE, !.startTime1 = U32(0)]
         ELSE s

\* ino_checkCondition1 latching MUTE_PIN on the first in-band evaluation
ino_checkCondition1_NoHold(s) ==
    IF AtLeast(s.filteredVoltage, InoCfg.VOLTAGE_LOW_1)
       /\ AtMost(s.filteredVoltage, InoCfg.VOLTAGE_HIGH_1)
    THEN IF ~s.condition1Active
         THEN digitalWrite([s EXCEPT !.condition1Active = TRUE,
                                     !.startTime1 = s.millis],
                           "MUTE_PIN", "HIGH")
         ELSE s
    ELSE LET off == IF s.condition1Active
                    THEN digitalWrite(digitalWrite(s, "MUTE_PIN", "LOW"),
                                      "RESET_PIN", "LOW")
                    ELSE s
         IN  [off EXCEPT !.condition1Active = FALSE, !.startTime1 = U32(0)]

\* ino_checkCondition1 with the 3000 ms branch tested before the 300 ms branch
ino_checkCondition1_LongFirst(s) ==
    IF AtLeast(s.filteredVoltage, InoCfg.VOLTAGE_LOW_1)
       /\ AtMost(s.filteredVoltage, InoCfg.VOLTAGE_HIGH_1)
    THEN IF ~s.condition1Active
         THEN IF s.startTime1 = U32(0)
              THEN [s EXCEPT !.startTime1 = s.millis]
              ELSE IF NotBelow(Elapsed(s.millis, s.startTime1), InoCfg.DURATION_THRESHOLD_2)
              THEN digitalWrite([s EXCEPT !.condition1Active = TRUE],
                                "RESET_PIN", "HIGH")
              ELSE IF NotBelow(Elapsed(s.millis, s.startTime1), InoCfg.DURATION_THRESHOLD_1)
              THEN digitalWrite([s EXCEPT !.condition1Active = TRUE],
                                "MUTE_PIN", "HIGH")
              ELSE s
         ELSE s
    ELSE LET off == IF s.condition1Active
                    THEN digitalWrite(digitalWrite(s, "MUTE_PIN", "LOW"),
                                      "RESET_PIN", "LOW")
                    ELSE s
         IN  [off EXCEPT !.condition1Active = FALSE, !.startTime1 = U32(0)]

ino_checkCondition1(s) ==
    IF AtLeast(s.filteredVoltage, InoCfg.VOLTAGE_LOW_1)
       /\ AtMost(s.filteredVoltage, InoCfg.VOLTAGE_HIGH_1)
    THEN IF ~s.condition1Active
         THEN IF s.startTime1 = U32(0)
              THEN [s EXCEPT !.startTime1 = s.millis]
              ELSE IF NotBelow(Elapsed(s.millis, s.startTime1), InoCfg.DURATION_THRESHOLD_1)
              THEN digitalWrite([s EXCEPT !.condition1Active = TRUE],
                                "MUTE_PIN", "HIGH")
              ELSE IF NotBelow(Elapsed(s.millis, s.startTime1), InoCfg.DURATION_THRESHOLD_2)
              THEN digitalWrite([s EXCEPT !.condition1Active = TRUE],
                                "RESET_PIN", "HIGH")
              ELSE s
         ELSE s
    ELSE LET off == IF s.condition1Active
                    THEN digitalWrite(digitalWrite(s, "MUTE_PIN", "LOW"),
                                      "RESET_PIN", "LOW")
                    ELSE s
         IN  [off EXCEPT !.condition1Active = FALSE, !.startTime1 = U32(0)]

\* ino_checkCondition2 without the test of condition2Active
ino_checkCondition2_Retrigger(s) ==
    IF AtLeast(s.filteredVoltage, InoCfg.VOLTAGE_LOW_2)
       /\ AtMost(s.filteredVoltage, InoCfg.VOLTAGE_HIGH_2)
    THEN IF s.startTime2 = U32(0)
         THEN [s EXCEPT !.startTime2 = s.millis]
         ELSE IF NotBelow(Elapsed(s.millis, s.startTime2), InoCfg.DURATION_THRESHOLD_1)
         THEN digitalWrite([s EXCEPT !.condition2Active = TRUE],
                           "PREV_PIN", "HIGH")
         ELSE s
    ELSE LET off == IF s.condition2Active
                    THEN digitalWrite(s, "PREV_PIN", "LOW")
                    ELSE s
         IN  [off EXCEPT !.condition2Active = FALSE, !.startTime2 = U32(0)]

\* ino_checkCondition2 latching only when strictly more than 300 ms have passed
ino_checkCondition2_Strict(s) ==
    IF AtLeast(s.filteredVoltage, InoCfg.VOLTAGE_LOW_2)
       /\ AtMost(s.filteredVoltage, InoCfg.VOLTAGE_HIGH_2)
    THEN IF ~s.condition2Active
         THEN IF s.startTime2 = U32(0)
              THEN [s EXCEPT !.startTime2 = s.millis]
              ELSE IF NotBelow(Elapsed(s.millis, s.startTime2),
                               InoCfg.DURATION_THRESHOLD_1 + 1)
              THEN digitalWrite([s EXCEPT !.condition2Active = TRUE],
                                "PREV_PIN", "HIGH")
              ELSE s
         ELSE s
    ELSE LET off == IF s.condition2Active
                    THEN digitalWrite(s, "PREV_PIN", "LOW")
                    ELSE s
         IN  [off EXCEPT !.condition2Active = FALSE, !.startTime2 = U32(0)]

ino_checkCondition2(s) ==
    IF AtLeast(s.filteredVoltage, InoCfg.VOLTAGE_LOW_2)
       /\ AtMost(s.filteredVoltage, InoCfg.VOLTAGE_HIGH_2)
    THEN IF ~s.condition2Active
         THEN IF s.startTime2 = U32(0)
              THEN [s EXCEPT !.startTime2 = s.millis]
              ELSE IF NotBelow(Elapsed(s.millis, s.startTime2), InoCfg.DURATION_THRESHOLD_1)
              THEN digitalWrite([s EXCEPT !.condition2Active = TRUE],
                                "PREV_PIN", "HIGH")
              ELSE s
         ELSE s
    ELSE LET off == IF s.condition2Active
                    THEN digitalWrite(s, "PREV_PIN", "LOW")
                    ELSE s
         IN  [off EXCEPT !.condition2Active = FALSE, !.startTime2 = U32(0)]

\* ino_checkCondition3 testing millis() >= startTime3 + DURATION_THRESHOLD_1
ino_checkCondition3_Deadline(s) ==
    IF AtLeast(s.filteredVoltage, InoCfg.VOLTAGE_LOW_3)
       /\ AtMost(s.filteredVoltage, InoCfg.VOLTAGE_HIGH_3)
    THEN IF ~s.condition3Active
         THEN IF s.startTime3 = U32(0)
              THEN [s EXCEPT !.startTime3 = s.millis]
              ELSE LET due == Plus(s.startTime3, InoCfg.DURATION_THRESHOLD_1)
                   IN  IF \/ s.millis[1] > due[1]
                          \/ s.millis[1] = due[1] /\ s.millis[2] >= due[2]
                       THEN digitalWrite([s EXCEPT !.condition3Active = TRUE],
                                         "NEXT_PIN", "HIGH")
                       ELSE s
         ELSE s
    ELSE LET off == IF s.condition3Active
                    THEN digitalWrite(s, "NEXT_PIN", "LOW")
                    ELSE s
         IN  [off EXCEPT !.condition3Active = FALSE, !.startTime3 = U32(0)]

\* ino_checkCondition3 with the release of checkCondition2 pasted in and only
\* the assignments renamed
ino_checkCondition3_PastedRelease(s) ==
    IF AtLeast(s.filteredVoltage, InoCfg.VOLTAGE_LOW_3)
       /\ AtMost(s.filteredVoltage, InoCfg.VOLTAGE_HIGH_3)
    THEN IF ~s.condition3Active
         THEN IF s.startTime3 = U32(0)
              THEN [s EXCEPT !.startTime3 = s.millis]
              ELSE IF NotBelow(Elapsed(s.millis, s.startTime3), InoCfg.DURATION_THRESHOLD_1)
              THEN digitalWrite([s EXCEPT !.condition3Active = TRUE],
                                "NEXT_PIN", "HIGH")
              ELSE s
         ELSE s
    ELSE LET off == IF s.condition2Active
                    THEN digitalWrite(s, "PREV_PIN", "LOW")
                    ELSE s
         IN  [off EXCEPT !.condition3Active = FALSE, !.startTime3 = U32(0)]

\* ino_checkCondition3 writing NEXT_PIN LOW on every out-of-band evaluation
ino_checkCondition3_AlwaysRelease(s) ==
    IF AtLeast(s.filteredVoltage, InoCfg.VOLTAGE_LOW_3)
       /\ AtMost(s.filteredVoltage, InoCfg.VOLTAGE_HIGH_3)
    THEN IF ~s.condition3Active
         THEN IF s.startTime3 = U32(0)
              THEN [s EXCEPT !.startTime3 = s.millis]
              ELSE IF NotBelow(Elapsed(s.millis, s.startTime3), InoCfg.DURATION_THRESHOLD_1)
              THEN digitalWrite([s EXCEPT !.condition3Active = TRUE],
                                "NEXT_PIN", "HIGH")
              ELSE s
         ELSE s
    ELSE [digitalWrite(s, "NEXT_PIN", "LOW")
            EXCEPT !.condition3Active = FALSE, !.startTime3 = U32(0)]

ino_checkCondition3(s) ==
    IF AtLeast(s.filteredVoltage, InoCfg.VOLTAGE_LOW_3)
       /\ AtMost(s.filteredVoltage, InoCfg.VOLTAGE_HIGH_3)
    THEN IF ~s.condition3Active
         THEN IF s.startTime3 = U32(0)
              THEN [s EXCEPT !.startTime3 = s.millis]
              ELSE IF NotBelow(Elapsed(s.millis, s.startTime3), InoCfg.DURATION_THRESHOLD_1)
              THEN digitalWrite([s EXCEPT !.condition3Active = TRUE],
                                "NEXT_PIN", "HIGH")
              ELSE s
         ELSE s
    ELSE LET off == IF s.condition3Active
                    THEN digitalWrite(s, "NEXT_PIN", "LOW")
                    ELSE s
         IN  [off EXCEPT !.condition3Active = FALSE, !.startTime3 = U32(0)]

\* The three band checks of one loop iteration, in the order loop() calls
\* them: each runs on the state the one before it left.
ino_checks(s) ==
    Only({ ino_checkCondition3(s2) :
             s2 \in { ino_checkCondition2(s1) :
               s1 \in { ino_checkCondition1(s) } } })

ino_loop(s, r) ==
    Only({ delay(s2, InoCfg.loopDelay) :
             s2 \in { ino_checks(s1) :
               s1 \in { ino_readVoltage(s, r) } } })

\* setup() up to and including digitalWrite(RESET_PIN, HIGH)
ino_setupPulse(s) ==
    digitalWrite([s EXCEPT !.readings = [i \in 1..InoCfg.numReadings |-> 0]],
                 "RESET_PIN", "HIGH")

\* the rest of setup(): delay(INITIAL_DELAY); digitalWrite(RESET_PIN, LOW)
ino_setupDone(s) ==
    digitalWrite(delay(s, InoCfg.INITIAL_DELAY), "RESET_PIN", "LOW")

-----------------------------------------------------------------------------
(* src/unnamed/part_000 *)

\* part_readVoltage advancing readIndex without the wrap-around
part_readVoltage_NoWrap(s, r) ==
    LET n    == PartCfg.numReadings
        buf  == [s.readings EXCEPT ![s.readIndex + 1] = ToVolts(r)]
        next == s.readIndex + 1
    IN  [s EXCEPT !.readings = buf,
                  !.readIndex = next,
                  !.filteredVoltage = SumSeq(buf) \div n]

part_readVoltage(s, r) ==
    LET n    == PartCfg.numReadings
        buf  == [s.readings EXCEPT ![s.readIndex + 1] = ToVolts(r)]
        next == (s.readIndex + 1) % n
    IN  [s EXCEPT !.readings = buf,
                  !.readIndex = next,
                  !.filteredVoltage = SumSeq(buf) \div n]

\* part_checkCondition1 releasing the pin without clearing condition1Active
part_checkCondition1_KeepsFlag(s) ==
    IF AtLeast(s.filteredVoltage, PartCfg.VOLTAGE_LOW_1)
       /\ AtMost(s.filteredVoltage, PartCfg.VOLTAGE_HIGH_1)
    THEN IF ~s.condition1Active
         THEN IF s.startTime1 = U32(0)
              THEN [s EXCEPT !.startTime1 = s.millis]
              ELSE IF NotBelow(Elapsed(s.millis, s.startTime1), PartCfg.DURATION_THRESHOLD_1)
              THEN delay(digitalWrite([s EXCEPT !.condition1Active = TRUE],
                                      "POWER_EN_PIN", "LOW"),
                         PartCfg.DURATION_THRESHOLD_2)
              ELSE s
         ELSE s
    ELSE LET off == IF s.condition1Active
                    THEN digitalWrite(s, "POWER_EN_PIN", "HIGH")
                    ELSE s
         IN  [off EXCEPT !.startTime1 = U32(0)]

part_checkCondition1(s) ==
    IF AtLeast(s.filteredVoltage, PartCfg.VOLTAGE_LOW_1)
       /\ AtMost(s.filteredVoltage, PartCfg.VOLTAGE_HIGH_1)
    THEN IF ~s.condition1Active
         THEN IF s.startTime1 = U32(0)
              THEN [s EXCEPT !.startTime1 = s.millis]
              ELSE IF NotBelow(Elapsed(s.millis, s.startTime1), PartCfg.DURATION_THRESHOLD_1)
              THEN delay(digitalWrite([s EXCEPT !.condition1Active = TRUE],
                                      "POWER_EN_PIN", "LOW"),
                         PartCfg.DURATION_THRESHOLD_2)
              ELSE s
         ELSE s
    ELSE LET off == IF s.condition1Active
                    THEN digitalWrite(s, "POWER_EN_PIN", "HIGH")
                    ELSE s
         IN  [off EXCEPT !.condition1Active = FALSE, !.startTime1 = U32(0)]

\* part_checkCondition2 without the blocking delay after the latch
part_checkCondition2_NoDelay(s) ==
    IF AtLeast(s.filteredVoltage, PartCfg.VOLTAGE_LOW_2)
       /\ AtMost(s.filteredVoltage, PartCfg.VOLTAGE_HIGH_2)
    THEN IF ~s.condition2Active
         THEN IF s.startTime2 = U32(0)
              THEN [s EXCEPT !.startTime2 = s.millis]
              ELSE IF NotBelow(Elapsed(s.millis, s.startTime2), PartCfg.DURATION_THRESHOLD_2)
              THEN digitalWrite([s EXCEPT !.condition2Active = TRUE],
                                "PREV_PIN", "HIGH")
              ELSE s
         ELSE s
    ELSE LET off == IF s.condition2Active
                    THEN digitalWrite(s, "PREV_PIN", "LOW")
                    ELSE s
         IN  [off EXCEPT !.condition2Active = FALSE, !.startTime2 = U32(0)]

\* part_checkCondition2 leaving startTime2 as it is when the voltage leaves the band
part_checkCondition2_KeepTimer(s) ==
    IF AtLeast(s.filteredVoltage, PartCfg.VOLTAGE_LOW_2)
       /\ AtMost(s.filteredVoltage, PartCfg.VOLTAGE_HIGH_2)
    THEN IF ~s.condition2Active
         THEN IF s.startTime2 = U32(0)
              THEN [s EXCEPT !.startTime2 = s.millis]
              ELSE IF NotBelow(Elapsed(s.millis, s.startTime2), PartCfg.DURATION_THRESHOLD_2)
              THEN delay(digitalWrite([s EXCEPT !.condition2Active = TRUE],
                                      "PREV_PIN", "HIGH"),
                         PartCfg.DURATION_THRESHOLD_2)
              ELSE s
         ELSE s
    ELSE LET off == IF s.condition2Active
                    THEN digitalWrite(s, "PREV_PIN", "LOW")
                    ELSE s
         IN  [off EXCEPT !.condition2Active = FALSE]

part_checkCondition2(s) ==
    IF AtLeast(s.filteredVoltage, PartCfg.VOLTAGE_LOW_2)
       /\ AtMost(s.filteredVoltage, PartCfg.VOLTAGE_HIGH_2)
    THEN IF ~s.condition2Active
         THEN IF s.startTime2 = U32(0)
              THEN [s EXCEPT !.startTime2 = s.millis]
              ELSE IF NotBelow(Elapsed(s.millis, s.startTime2), PartCfg.DURATION_THRESHOLD_2)
              THEN delay(digitalWrite([s EXCEPT !.condition2Active = TRUE],
                                      "PREV_PIN", "HIGH"),
                         PartCfg.DURATION_THRESHOLD_2)
              ELSE s
         ELSE s
    ELSE LET off == IF s.condition2Active
                    THEN digitalWrite(s, "PREV_PIN", "LOW")
                    ELSE s
         IN  [off EXCEPT !.condition2Active = FALSE, !.startTime2 = U32(0)]

\* part_checkCondition3 latching without setting condition3Active
part_checkCondition3_NoFlag(s) ==
    IF AtLeast(s.filteredVoltage, PartCfg.VOLTAGE_LOW_3)
       /\ AtMost(s.filteredVoltage, PartCfg.VOLTAGE_HIGH_3)
    THEN IF ~s.condition3Active
         THEN IF s.startTime3 = U32(0)
              THEN [s EXCEPT !.startTime3 = s.millis]
              ELSE IF NotBelow(Elapsed(s.millis, s.startTime3), PartCfg.DURATION_THRESHOLD_2)
              THEN delay(digitalWrite(s, "NEXT_PIN", "HIGH"),
                         PartCfg.DURATION_THRESHOLD_2)
              ELSE s
         ELSE s
    ELSE LET off == IF s.condition3Active
                    THEN digitalWrite(s, "NEXT_PIN", "LOW")
                    ELSE s
         IN  [off EXCEPT !.condition3Active = FALSE, !.startTime3 = U32(0)]

part_checkCondition3(s) ==
    IF AtLeast(s.filteredVoltage, PartCfg.VOLTAGE_LOW_3)
       /\ AtMost(s.filteredVoltage, PartCfg.VOLTAGE_HIGH_3)
    THEN IF ~s.condition3Active
         THEN IF s.startTime3 = U32(0)
              THEN [s EXCEPT !.startTime3 = s.millis]
              ELSE IF NotBelow(Elapsed(s.millis, s.startTime3), PartCfg.DURATION_THRESHOLD_2)
              THEN delay(digitalWrite([s EXCEPT !.condition3Active = TRUE],
                                      "NEXT_PIN", "HIGH"),
                         PartCfg.DURATION_THRESHOLD_2)
              ELSE s
         ELSE s
    ELSE LET off == IF s.condition3Active
                    THEN digitalWrite(s, "NEXT_PIN", "LOW")
                    ELSE s
         IN  [off EXCEPT !.condition3Active = FALSE, !.startTime3 = U32(0)]

part_checks(s) ==
    Only({ part_checkCondition3(s2) :
             s2 \in { part_checkCondition2(s1) :
               s1 \in { part_checkCondition1(s) } } })

part_loop(s, r) ==
    Only({ delay(s2, PartCfg.loopDelay) :
             s2 \in { part_checks(s1) :
               s1 \in { part_readVoltage(s, r) } } })

\* setup() up to and including digitalWrite(POWER_EN_PIN, LOW)
part_setupPulse(s) ==
    digitalWrite([s EXCEPT !.readings = [i \in 1..PartCfg.numReadings |-> 0]],
                 "POWER_EN_PIN", "LOW")

\* the rest of setup() with the polarity of mazda3bk-bt.ino
part_setupDone_ActiveHigh(s) ==
    digitalWrite(delay(s, PartCfg.INITIAL_DELAY), "POWER_EN_PIN", "LOW")

\* the rest of setup(): delay(INITIAL_DELAY); digitalWrite(POWER_EN_PIN, HIGH)
part_setupDone(s) ==
    digitalWrite(delay(s, PartCfg.INITIAL_DELAY), "POWER_EN_PIN", "HIGH")

-----------------------------------------------------------------------------
(* The two sketches behind one interface *)

Levels(k) == IF k = "ino" THEN InoLevels ELSE PartLevels

AllLevels(k) == Levels(k) \cup OtherLevels

readVoltage(k, s, r) ==
    IF k = "ino" THEN ino_readVoltage(s, r) ELSE part_readVoltage(s, r)

checks(k, s) == IF k = "ino" THEN ino_checks(s) ELSE part_checks(s)

\* checkCondition1, checkCondition2 or checkCondition3 of sketch k
checkCondition(k, b, s) ==
    CASE b = 1 -> IF k = "ino" THEN ino_checkCondition1(s) ELSE part_checkCondition1(s)
      [] b = 2 -> IF k = "ino" THEN ino_checkCondition2(s) ELSE part_checkCondition2(s)
      [] b = 3 -> IF k = "ino" THEN ino_checkCondition3(s) ELSE part_checkCondition3(s)

loop(k, s, r) == IF k = "ino" THEN ino_loop(s, r) ELSE part_loop(s, r)

setupPulse(k, s) == IF k = "ino" THEN ino_setupPulse(s) ELSE part_setupPulse(s)

setupDone(k, s) == IF k = "ino" THEN ino_setupDone(s) ELSE part_setupDone(s)

\* Band b of sketch k: its limits, hold threshold, flag, timer and pins.
Low(k, b) ==
    CASE b = 1 -> Cfg(k).VOLTAGE_LOW_1
      [] b = 2 -> Cfg(k).VOLTAGE_LOW_2
      [] b = 3 -> Cfg(k).VOLTAGE_LOW_3

High(k, b) ==
    CASE b = 1 -> Cfg(k).VOLTAGE_HIGH_1
      [] b = 2 -> Cfg(k).VOLTAGE_HIGH_2
      [] b = 3 -> Cfg(k).VOLTAGE_HIGH_3

\* The hold time after which the band's (first) output is driven.
Hold(k, b) ==
    IF k = "ino" THEN InoCfg.DURATION_THRESHOLD_1
    ELSE IF b = 1 THEN PartCfg.DURATION_THRESHOLD_1
    ELSE PartCfg.DURATION_THRESHOLD_2

Active(s, b) ==
    CASE b = 1 -> s.condition1Active
      [] b = 2 -> s.condition2Active
      [] b = 3 -> s.condition3Active

StartTime(s, b) ==
    CASE b = 1 -> s.startTime1
      [] b = 2 -> s.startTime2
      [] b = 3 -> s.startTime3

\* The output a band latches, and all outputs it releases.
LatchPin(k, b) ==
    CASE b = 1 -> IF k = "ino" THEN "MUTE_PIN" ELSE "POWER_EN_PIN"
      [] b = 2 -> "PREV_PIN"
      [] b = 3 -> "NEXT_PIN"

BandPins(k, b) ==
    IF k = "ino" /\ b = 1 THEN {"MUTE_PIN", "RESET_PIN"} ELSE {LatchPin(k, b)}

ActiveLevel(k, p) == IF k = "part" /\ p = "POWER_EN_PIN" THEN "LOW" ELSE "HIGH"

InactiveLevel(k, p) == IF ActiveLevel(k, p) = "HIGH" THEN "LOW" ELSE "HIGH"

InBand(k, b, v) == AtLeast(v, Low(k, b)) /\ AtMost(v, High(k, b))

-----------------------------------------------------------------------------
(* State *)

\* The globals as the C++ initialisers leave them; the port registers are 0.
Boot(k) ==
    [ millis           |-> U32(0),
      readings         |-> [i \in 1..Cfg(k).numReadings |-> 0],
      readIndex        |-> 0,
      filteredVoltage  |-> 0,
      startTime1       |-> U32(0),
      startTime2       |-> U32(0),
      startTime3       |-> U32(0),
      condition1Active |-> FALSE,
      condition2Active |-> FALSE,
      condition3Active |-> FALSE,
      pin              |-> [p \in Pins(k) |-> "LOW"],
      writes           |-> <<>> ]

NoEntry == 0 - 1

HistoryInit ==
    /\ changes = 0
    /\ uptime = 0
    /\ tickAt = 0
    /\ run = [b \in Bands |-> 0]
    /\ entry = [b \in Bands |-> NoEntry]
    /\ log = [b \in Bands |-> <<>>]
    /\ latches = [b \in Bands |-> 0]
    /\ ticks = 0
    /\ window = <<>>

Init ==
    /\ sketch \in Sketches
    /\ pc = "boot"
    /\ level \in Levels(sketch)
    /\ mcu = Boot(sketch)
    /\ harness = FALSE
    /\ HistoryInit

\* What one pass over the band checks adds to the history: v is the filtered
\* voltage the checks saw, t the uptime when they started, w the pin writes
\* they made.
Observe(v, t, w) ==
    /\ tickAt' = t
    /\ ticks' = ticks + 1
    /\ run' = [b \in Bands |-> IF InBand(sketch, b, v) THEN run[b] + 1 ELSE 0]
    /\ entry' = [b \in Bands |->
                   IF ~InBand(sketch, b, v) THEN NoEntry
                   ELSE IF run[b] = 0 THEN t ELSE entry[b]]
    /\ log' = [b \in Bands |->
                 LET mine == SelectSeq(w, LAMBDA x : x.pin \in BandPins(sketch, b))
                 IN  IF run[b] = 0 /\ InBand(sketch, b, v)
                     THEN mine ELSE log[b] \o mine]
    /\ latches' = [b \in Bands |->
                     IF ~Active(mcu, b) /\ Active(mcu', b)
                     THEN latches[b] + 1 ELSE latches[b]]

-----------------------------------------------------------------------------
(* Actions of the running sketch *)

\* setup(), first half: pin modes, the buffer cleared, the reset pulse begun.
SetupPulse ==
    /\ ~harness
    /\ pc = "boot"
    /\ pc' = "pulse"
    /\ mcu' = setupPulse(sketch, mcu)
    /\ UNCHANGED <<sketch, level, harness, changes, uptime, tickAt, run, entry,
                   log, latches, ticks, window>>

\* setup(), second half: the pulse ends after INITIAL_DELAY.
SetupDone ==
    /\ ~harness
    /\ pc = "pulse"
    /\ pc' = "loop"
    /\ mcu' = setupDone(sketch, mcu)
    /\ UNCHANGED <<sketch, level, harness, changes, uptime, tickAt, run, entry,
                   log, latches, ticks, window>>

\* One iteration of loop(), with the input at level lv while it is sampled,
\* in a run observed for limit ms after setup.
Run(lv, limit) ==
    /\ ~harness
    /\ pc = "loop"
    /\ uptime < limit
    /\ mcu' = loop(sketch, [mcu EXCEPT !.writes = <<>>], analogRead(lv))
    /\ uptime' = uptime + Val(Elapsed(mcu'.millis, mcu.millis))
    /\ window' = LET w == Append(window, ToVolts(analogRead(lv)))
                 IN  IF Len(w) > Cfg(sketch).numReadings THEN Tail(w) ELSE w
    /\ Observe(mcu'.filteredVoltage, uptime, mcu'.writes)
    /\ level' = lv
    /\ changes' = IF lv = level THEN changes ELSE changes + 1
    /\ UNCHANGED <<sketch, pc, harness>>

\* The same, in a run in which the level changes at most MaxChanges times.
Iterate(lv, limit) ==
    /\ lv = level \/ changes < MaxChanges
    /\ Run(lv, limit)

Loop(lv) == Iterate(lv, MaxUptime)

Next ==
    \/ SetupPulse
    \/ SetupDone
    \/ \E lv \in Levels(sketch) : Loop(lv)

Spec == Init /\ [][Next]_vars

\* The same sketch observed for a shorter time; loop() is called again and
\* again for as long as the sketch runs.
LoopLive(lv) == Iterate(lv, MaxLiveUptime)

NextLive ==
    \/ SetupPulse
    \/ SetupDone
    \/ \E lv \in Levels(sketch) : LoopLive(lv)

SpecLive == Init /\ [][NextLive]_vars /\ WF_vars(NextLive)

\* Runs in which one of the seven measured levels is on the input from
\* power-up until the buffer holds nothing else and its band, if it has one,
\* is latched, and the input then steps once, at any tick, to another level.
StepFrom(k) ==
    Cfg(k).numReadings * Cfg(k).loopDelay + Hold(k, 1)
      + PartCfg.DURATION_THRESHOLD_2 + 2 * Cfg(k).loopDelay

InitStep ==
    /\ sketch \in Sketches
    /\ pc = "boot"
    /\ level \in AllLevels(sketch)
    /\ mcu = Boot(sketch)
    /\ harness = FALSE
    /\ HistoryInit

StepLoop(lv) ==
    /\ lv = level \/ (changes = 0 /\ uptime >= StepFrom(sketch))
    /\ Run(lv, StepFrom(sketch) + MaxStepSpan)

NextStep ==
    \/ SetupPulse
    \/ SetupDone
    \/ \E lv \in AllLevels(sketch) : StepLoop(lv)

SpecStep == InitStep /\ [][NextStep]_vars

-----------------------------------------------------------------------------
(* Runs that drive the band checks directly: a synthetic filtered voltage v *)
(* on every tick and d milliseconds from one tick to the next.             *)

Spacings(k) ==
    {Cfg(k).loopDelay, Cfg(k).DURATION_THRESHOLD_1, Cfg(k).DURATION_THRESHOLD_2}

Voltages(k) == {(cv * VoltUnit) \div 100 : cv \in Levels(k)}

InitTicks ==
    /\ sketch \in Sketches
    /\ pc = "loop"
    /\ level = NoButton
    /\ mcu = [setupDone(sketch, setupPulse(sketch, Boot(sketch)))
                EXCEPT !.writes = <<>>]
    /\ harness = TRUE
    /\ HistoryInit

Tick(v, d, limit) ==
    /\ harness
    /\ ticks < limit
    /\ mcu' = delay(checks(sketch, [mcu EXCEPT !.writes = <<>>,
                                               !.filteredVoltage = v]), d)
    /\ uptime' = uptime + Val(Elapsed(mcu'.millis, mcu.millis))
    /\ Observe(v, uptime, mcu'.writes)
    /\ UNCHANGED <<sketch, pc, level, harness, changes, window>>

TickAt(v, d) == Tick(v, d, MaxSynthTicks)

NextTicks == \E v \in Voltages(sketch), d \in Spacings(sketch) : TickAt(v, d)

SpecTicks == InitTicks /\ [][NextTicks]_vars

\* The same runs begun 2^32 - d ms after power-up, when millis() is about to
\* return to 0.  With the button released since power-up, the clock at the
\* start of a loop iteration is INITIAL_DELAY + k * loopDelay modulo 2^32,
\* which takes each of these values for some k (after 49.7 days).
WrapStarts(k) ==
    { Minus(U32(0), U32(d)) : d \in {0, 2 * Cfg(k).loopDelay} \cup Spacings(k) }

InitWrap ==
    /\ sketch \in Sketches
    /\ pc = "loop"
    /\ level = NoButton
    /\ \E m \in WrapStarts(sketch) :
         mcu = [setupDone(sketch, setupPulse(sketch, Boot(sketch)))
                  EXCEPT !.writes = <<>>, !.millis = m]
    /\ harness = TRUE
    /\ HistoryInit

TickWrap(v, d) == Tick(v, d, MaxWrapTicks)

NextWrap == \E v \in Voltages(sketch), d \in Spacings(sketch) : TickWrap(v, d)

SpecWrap == InitWrap /\ [][NextWrap]_vars

-----------------------------------------------------------------------------
(* Vocabulary of the properties *)

\* Band b was occupied at its latest evaluation.
Occupied(b) == run[b] > 0

\* How long band b had been occupied at its latest evaluation, in ms.
HeldFor(b) == tickAt - entry[b]

Level(p) == mcu.pin[p]

IsActive(p)   == Level(p) = ActiveLevel(sketch, p)
IsInactive(p) == Level(p) = InactiveLevel(sketch, p)

\* Writes of pin p recorded for band b's current occupancy, by kind.
ActiveWrites(b, p) ==
    SelectSeq(log[b], LAMBDA x : x.pin = p /\ x.to = ActiveLevel(sketch, p))

InactiveWrites(b, p) ==
    SelectSeq(log[b], LAMBDA x : x.pin = p /\ x.to = InactiveLevel(sketch, p))

-----------------------------------------------------------------------------
(* C1 *)

\* C1: in mazda3bk-bt.ino, whenever band 1 (3.70-3.90 V) has been occupied
\* without interruption for more than DURATION_THRESHOLD_2 = 3000 ms,
\* RESET_PIN is HIGH.
C1_ResetAfterLongHold ==
    (sketch = "ino" /\ pc = "loop" /\ Occupied(1)
       /\ HeldFor(1) > InoCfg.DURATION_THRESHOLD_2)
    => Level("RESET_PIN") = "HIGH"

-----------------------------------------------------------------------------
(* C2 *)

-----------------------------------------------------------------------------
(* C3 *)

\* Every band but band 1 of mazda3bk-bt.ino has a single threshold.
SingleThreshold(k, b) == ~(k = "ino" /\ b = 1)

\* C3: for every single-threshold band, while the filtered voltage stays in
\* the band the start time is the clock of the first in-band tick, and the
\* band is latched with its output active exactly from the first tick at
\* which millis() - start time >= the band's hold threshold; with the 20 ms
\* ticks of mazda3bk-bt.ino, PREV (2.30-2.50 V, 300 ms) goes active on the
\* 15th or 16th consecutive in-band tick.
C3_LatchAtThreshold ==
    pc = "loop" =>
      /\ \A b \in Bands :
           (SingleThreshold(sketch, b) /\ Occupied(b)) =>
             /\ Val(StartTime(mcu, b)) = Cfg(sketch).INITIAL_DELAY + entry[b]
             /\ Active(mcu, b) <=> HeldFor(b) >= Hold(sketch, b)
             /\ IsActive(LatchPin(sketch, b)) <=> HeldFor(b) >= Hold(sketch, b)
      /\ (sketch = "ino" /\ Occupied(2)) =>
             /\ IsActive("PREV_PIN") => run[2] >= 15
             /\ run[2] >= 16 => IsActive("PREV_PIN")

\* PREV of mazda3bk-bt.ino has just gone active, on the 16th in-band tick.
C3_Witness ==
    /\ sketch = "ino"
    /\ pc = "loop"
    /\ run[2] = 16
    /\ HeldFor(2) = InoCfg.DURATION_THRESHOLD_1
    /\ mcu.condition2Active
    /\ Level("PREV_PIN") = "HIGH"
    /\ Len(mcu.writes) = 1

-----------------------------------------------------------------------------
(* C4 *)

\* The writes of the latest pass over the band checks that went to band b's pins.
TickWrites(s, b) == SelectSeq(s.writes, LAMBDA x : x.pin \in BandPins(sketch, b))

\* C4: a tick that finds the filtered voltage outside band b leaves the band
\* with active = false and start time = 0; if the band was latched, that tick
\* writes the inactive level to every pin of the band (and nothing else to
\* them), whatever the time spent latched; if it was not latched, that tick
\* writes none of the band's pins.
C4_ReleaseOnExit ==
    [][ \A b \in Bands :
          (pc = "loop" /\ ~InBand(sketch, b, mcu'.filteredVoltage)) =>
            /\ ~Active(mcu', b)
            /\ StartTime(mcu', b) = U32(0)
            /\ Active(mcu, b) =>
                 /\ \A p \in BandPins(sketch, b) :
                      /\ mcu'.pin[p] = InactiveLevel(sketch, p)
                      /\ \E i \in DOMAIN mcu'.writes : mcu'.writes[i].pin = p
                 /\ \A i \in DOMAIN TickWrites(mcu', b) :
                      TickWrites(mcu', b)[i].to =
                        InactiveLevel(sketch, TickWrites(mcu', b)[i].pin)
            /\ ~Active(mcu, b) => TickWrites(mcu', b) = <<>>
      ]_vars

\* PREV of part_000 was latched and has just been released.
C4_Witness ==
    /\ sketch = "part"
    /\ pc = "loop"
    /\ run[2] = 0
    /\ Len(ActiveWrites(2, "PREV_PIN")) = 1
    /\ TickWrites(mcu, 2) # <<>>
    /\ Level("PREV_PIN") = "LOW"
    /\ mcu.startTime2 = U32(0)
    /\ ~mcu.condition2Active

-----------------------------------------------------------------------------
(* C5 *)

\* C5: within one occupancy of a band each of its pins is written its active
\* level at most once and its inactive level at most once; a tick that finds
\* the band occupied writes at most the one latching write, the tick on which
\* the voltage leaves the band writes only inactive levels, and a tick that
\* finds the band unoccupied after an unoccupied tick writes none of its pins.
C5_EdgeTriggered ==
    [][ pc = "loop" =>
          \A b \in Bands :
            LET w == TickWrites(mcu', b)
            IN  /\ \A p \in BandPins(sketch, b) :
                     /\ Len(SelectSeq(log'[b], LAMBDA x :
                              x.pin = p /\ x.to = ActiveLevel(sketch, p))) <= 1
                     /\ Len(SelectSeq(log'[b], LAMBDA x :
                              x.pin = p /\ x.to = InactiveLevel(sketch, p))) <= 1
                /\ run'[b] > 0 =>
                     /\ Len(w) <= 1
                     /\ \A i \in DOMAIN w : w[i].to = ActiveLevel(sketch, w[i].pin)
                /\ (run'[b] = 0 /\ run[b] > 0) =>
                     \A i \in DOMAIN w : w[i].to = InactiveLevel(sketch, w[i].pin)
                /\ (run'[b] = 0 /\ run[b] = 0) => w = <<>>
      ]_vars

\* NEXT of mazda3bk-bt.ino has been latched and released once in an occupancy
\* that ended some ticks ago.
C5_Witness ==
    /\ sketch = "ino"
    /\ pc = "loop"
    /\ run[3] = 0
    /\ Len(ActiveWrites(3, "NEXT_PIN")) = 1
    /\ Len(InactiveWrites(3, "NEXT_PIN")) = 1
    /\ mcu.writes = <<>>

-----------------------------------------------------------------------------
(* C6 *)

\* Changes of pin p to its active (inactive) level among the writes q.
Ups(q, p) ==
    Len(SelectSeq(q, LAMBDA x :
          x.pin = p /\ x.to = ActiveLevel(sketch, p) /\ x.was # x.to))

Downs(q, p) ==
    Len(SelectSeq(q, LAMBDA x :
          x.pin = p /\ x.to = InactiveLevel(sketch, p) /\ x.was # x.to))

\* A step of loop() in which the filtered voltage leaves band b.
EndsOccupancy(b) == pc = "loop" /\ run[b] > 0 /\ run'[b] = 0

-----------------------------------------------------------------------------
(* C7 *)

\* The voltage of the reading taken at the present input level.
ReadingVolts == ToVolts(analogRead(level))

\* The longest the sketch takes from the first sample of a new constant level
\* to the latching of band b: the buffer refilled, the hold time, one tick of
\* rounding, and one blocking delay of part_000 that may fall in between.
Settle(k, b) ==
    Cfg(k).numReadings * Cfg(k).loopDelay + Hold(k, b) + 2 * Cfg(k).loopDelay
      + PartCfg.DURATION_THRESHOLD_2

\* The input will stay at its present level for good, that level reads as a
\* voltage inside band b, and loop() will go on for at least Settle ms.
HeldInBand(b) ==
    /\ pc = "loop"
    /\ changes = MaxChanges
    /\ InBand(sketch, b, ReadingVolts)
    /\ uptime + Settle(sketch, b) <= MaxLiveUptime

\* The same for a level that reads as a voltage outside every band.
HeldOutside ==
    /\ pc = "loop"
    /\ changes = MaxChanges
    /\ \A b \in Bands : ~InBand(sketch, b, ReadingVolts)
    /\ uptime + Settle(sketch, 2) <= MaxLiveUptime

AllInactive ==
    \A b \in Bands : \A p \in BandPins(sketch, b) : IsInactive(p)

-----------------------------------------------------------------------------
(* C8 *)

Min(a, b) == IF a <= b THEN a ELSE b

\* C8: after k calls of readVoltage, readIndex = k mod N, the filtered voltage
\* is the sum of the latest min(k, N) converted samples divided by N, and
\* while the reading has been the same since power-up it is min(k, N)/N of
\* that reading's voltage: the reading's voltage itself from call N on.
C8_FilterIsWindowAverage ==
    pc = "loop" =>
      LET n == Cfg(sketch).numReadings
      IN  /\ mcu.readIndex = ticks % n
          /\ mcu.readIndex \in 0..(n - 1)
          /\ Len(window) = Min(ticks, n)
          /\ mcu.filteredVoltage = SumSeq(window) \div n
          /\ changes = 0 =>
               /\ mcu.filteredVoltage * n = Min(ticks, n) * ReadingVolts
               /\ ticks >= n => mcu.filteredVoltage = ReadingVolts

\* part_000: the index has wrapped round and the buffer holds samples of two
\* different levels.
C8_Witness ==
    /\ sketch = "part"
    /\ pc = "loop"
    /\ ticks = PartCfg.numReadings + 2
    /\ mcu.readIndex = 2
    /\ window[1] # window[PartCfg.numReadings]
    /\ mcu.filteredVoltage # ReadingVolts

-----------------------------------------------------------------------------
(* C9 *)

\* Milliseconds from write x to write y.
Between(x, y) == Val(Minus(y.at, x.at))

\* C9: in part_000 the loop iteration in which a band latches its output
\* lasts DURATION_THRESHOLD_2 = 300 ms longer than any other, with its one
\* sample taken before the latch, and every release of a pin comes at least
\* 300 ms after the latching write of the same occupancy.
C9_LatchBlocksLoop ==
    /\ [] ( sketch = "part" =>
              \A b \in Bands : \A i, j \in DOMAIN log[b] :
                (i < j /\ log[b][i].to = ActiveLevel(sketch, log[b][i].pin)
                       /\ log[b][j].to = InactiveLevel(sketch, log[b][j].pin))
                => Between(log[b][i], log[b][j]) >= PartCfg.DURATION_THRESHOLD_2 )
    /\ [][ (sketch = "part" /\ pc = "loop") =>
             /\ ticks' = ticks + 1
             /\ uptime' - uptime =
                  IF \E b \in Bands : ~Active(mcu, b) /\ Active(mcu', b)
                  THEN PartCfg.DURATION_THRESHOLD_2 + PartCfg.loopDelay
                  ELSE PartCfg.loopDelay
         ]_vars

\* part_000: PREV_PIN was released on the second tick after the blocking
\* delay of its latch.
C9_Witness ==
    /\ sketch = "part"
    /\ Len(log[2]) = 2
    /\ log[2][1].to = "HIGH"
    /\ log[2][2].to = "LOW"
    /\ Between(log[2][1], log[2][2]) =
         PartCfg.DURATION_THRESHOLD_2 + 2 * PartCfg.loopDelay

-----------------------------------------------------------------------------
(* C10 *)

\* C10: a tick that finds a latched band still occupied changes neither its
\* flag nor its start time nor its pins; a latched band is left only by a
\* tick that finds the voltage outside, which makes it idle; and a band is
\* latched only from pending, by a tick at least the hold time after the
\* start time recorded on the first in-band tick of the present occupancy.
C10_LatchedFrame ==
    [][ pc = "loop" =>
          \A b \in Bands :
            /\ (Active(mcu, b) /\ InBand(sketch, b, mcu'.filteredVoltage)) =>
                 /\ Active(mcu', b)
                 /\ StartTime(mcu', b) = StartTime(mcu, b)
                 /\ \A p \in BandPins(sketch, b) : mcu'.pin[p] = mcu.pin[p]
                 /\ TickWrites(mcu', b) = <<>>
            /\ (Active(mcu, b) /\ ~InBand(sketch, b, mcu'.filteredVoltage)) =>
                 /\ ~Active(mcu', b)
                 /\ StartTime(mcu', b) = U32(0)
            /\ (~Active(mcu, b) /\ Active(mcu', b)) =>
                 /\ StartTime(mcu, b) # U32(0)
                 /\ StartTime(mcu', b) = StartTime(mcu, b)
                 /\ run[b] > 0
                 /\ Val(StartTime(mcu, b)) = Cfg(sketch).INITIAL_DELAY + entry[b]
                 /\ tickAt' - entry[b] >= Hold(sketch, b)
      ]_vars

\* A band latched for the second time, after an idle tick, has stayed
\* latched over a further in-band tick that wrote nothing.
C10_Witness ==
    \E b \in Bands :
      /\ latches[b] = 2
      /\ Active(mcu, b)
      /\ run[b] = 3
      /\ mcu.writes = <<>>

-----------------------------------------------------------------------------
(* C11 *)

\* C11: on the first tick that finds band b occupied its start time is set
\* to the value millis() returns on that tick, and every later tick of the
\* same occupancy leaves it at that value, whatever that value is.
C11_EntryTimestampOnce ==
    [][ pc = "loop" =>
          \A b \in Bands :
            InBand(sketch, b, mcu'.filteredVoltage) =>
              IF run[b] = 0
              THEN StartTime(mcu', b) = mcu.millis
              ELSE StartTime(mcu', b) = StartTime(mcu, b)
      ]_vars

-----------------------------------------------------------------------------
(* C12 *)

\* The orders in which the three checks can be called.
Orders == { o \in [1..3 -> Bands] : \A i, j \in 1..3 : o[i] = o[j] => i = j }

\* The three checks called in order o on state s.
checksIn(k, o, s) ==
    Only({ checkCondition(k, o[3], s2) :
             s2 \in { checkCondition(k, o[2], s1) :
               s1 \in { checkCondition(k, o[1], s) } } })

\* What a tick leaves behind: the flags, which start times are set, the pins.
Outcome(s) ==
    [ active |-> [b \in Bands |-> Active(s, b)],
      timing |-> [b \in Bands |-> StartTime(s, b) # U32(0)],
      pin    |-> s.pin ]

\* C12: in every reachable state and for every filtered voltage, the three
\* band checks called in any order leave the same flags, the same start
\* times set or unset and the same pin levels as in the order of loop().
C12_OrderIrrelevant ==
    \A v \in Voltages(sketch) :
      \A s \in { [mcu EXCEPT !.writes = <<>>, !.filteredVoltage = v] } :
        { Outcome(checksIn(sketch, o, s)) : o \in Orders }
          = { Outcome(checks(sketch, s)) }

\* part_000: a band is pending with its hold time over, so that the next tick
\* latches it and blocks for 300 ms between that check and the checks called
\* after it.
C12_Witness ==
    /\ sketch = "part"
    /\ \E b \in Bands :
         /\ ~Active(mcu, b)
         /\ StartTime(mcu, b) # U32(0)
         /\ NotBelow(Elapsed(mcu.millis, StartTime(mcu, b)), Hold(sketch, b))
         /\ \E v \in Voltages(sketch) :
              Active(checks(sketch, [mcu EXCEPT !.filteredVoltage = v]), b)

-----------------------------------------------------------------------------
(* C13 *)

\* In state s at most one flag is set and at most one of the three button
\* outputs is at its active level.
AtMostOneActive(s) ==
    /\ Cardinality({ b \in Bands : Active(s, b) }) <= 1
    /\ Cardinality({ b \in Bands :
                       s.pin[LatchPin(sketch, b)]
                         = ActiveLevel(sketch, LatchPin(sketch, b)) }) <= 1

\* C13: after setup, at the start of every tick and, whatever the filtered
\* voltage of that tick is, after each of its three checks, at most one of
\* condition1Active, condition2Active, condition3Active is true and at most
\* one of MUTE_PIN (POWER_EN_PIN in part_000), PREV_PIN, NEXT_PIN is at its
\* active level.
C13_AtMostOneLatched ==
    pc = "loop" =>
      /\ AtMostOneActive(mcu)
      /\ \A v \in Voltages(sketch) :
           \A s1 \in { checkCondition(sketch, 1, [mcu EXCEPT !.filteredVoltage = v]) } :
             /\ AtMostOneActive(s1)
             /\ \A s2 \in { checkCondition(sketch, 2, s1) } :
                  /\ AtMostOneActive(s2)
                  /\ AtMostOneActive(checkCondition(sketch, 3, s2))

\* part_000: band 2 is latched, after band 1 was latched and released.
C13_Witness ==
    /\ sketch = "part"
    /\ latches[1] = 1
    /\ Active(mcu, 2)
    /\ IsActive("PREV_PIN")
    /\ IsInactive("POWER_EN_PIN")

-----------------------------------------------------------------------------
(* C14 *)

\* The pin pulsed by setup().
PulsePin(k) == IF k = "ino" THEN "RESET_PIN" ELSE "POWER_EN_PIN"

\* Length of the start-up pulse as the header comments and the README give it.
DocumentedPulse == 3000

\* The pulse of setup() has lasted len ms: the pin went to its active level
\* before the delay and to its inactive level after it, and nothing else was
\* written.
PulseOf(len) ==
    /\ Len(mcu.writes) = 2
    /\ \A i \in 1..2 : mcu.writes[i].pin = PulsePin(sketch)
    /\ mcu.writes[1].to = ActiveLevel(sketch, PulsePin(sketch))
    /\ mcu.writes[2].to = InactiveLevel(sketch, PulsePin(sketch))
    /\ Between(mcu.writes[1], mcu.writes[2]) = len

\* C14: while setup() waits the pulsed pin is at its active level and no band
\* has been evaluated, and when loop() is first entered the pin is back at
\* its inactive level after a pulse of 3000 ms.
C14_Pulse3000 ==
    /\ pc = "pulse" => (IsActive(PulsePin(sketch)) /\ ticks = 0)
    /\ (pc = "loop" /\ ticks = 0) =>
         (IsInactive(PulsePin(sketch)) /\ PulseOf(DocumentedPulse))

-----------------------------------------------------------------------------
(* C15 *)

\* C15: at every tick boundary after setup, in mazda3bk-bt.ino MUTE_PIN,
\* PREV_PIN, NEXT_PIN are HIGH exactly while condition1Active,
\* condition2Active, condition3Active hold, and in part_000 POWER_EN_PIN is
\* LOW exactly while condition1Active holds and HIGH otherwise, and PREV_PIN,
\* NEXT_PIN are HIGH exactly while condition2Active, condition3Active hold.
C15_PinFollowsFlag ==
    pc = "loop" =>
      /\ sketch = "ino" =>
           /\ Level("MUTE_PIN") = "HIGH" <=> mcu.condition1Active
           /\ Level("PREV_PIN") = "HIGH" <=> mcu.condition2Active
           /\ Level("NEXT_PIN") = "HIGH" <=> mcu.condition3Active
      /\ sketch = "part" =>
           /\ Level("POWER_EN_PIN") = "LOW" <=> mcu.condition1Active
           /\ Level("POWER_EN_PIN") = "HIGH" <=> ~mcu.condition1Active
           /\ Level("PREV_PIN") = "HIGH" <=> mcu.condition2Active
           /\ Level("NEXT_PIN") = "HIGH" <=> mcu.condition3Active

\* part_000: the Mute level has been held for 3000 ms and POWER_EN_PIN is LOW.
C15_Witness ==
    /\ sketch = "part"
    /\ pc = "loop"
    /\ mcu.condition1Active
    /\ Level("POWER_EN_PIN") = "LOW"
    /\ Level("PREV_PIN") = "LOW"
    /\ Level("NEXT_PIN") = "LOW"

-----------------------------------------------------------------------------
(* C16 *)

\* Band b contains the voltage of one of the samples now in the buffer: of
\* the level before the step or of the level after it.
HoldsSample(b) == \E i \in DOMAIN window : InBand(sketch, b, window[i])

\* C16: while the filter moves from one level to another (or from the
\* cleared buffer to the first level), a band that contains neither level is
\* never latched and none of its pins is driven, although the filtered
\* voltage may be inside it.
C16_NoSpuriousLatch ==
    pc = "loop" =>
      \A b \in Bands :
        ~HoldsSample(b) =>
          /\ ~Active(mcu, b)
          /\ \A p \in BandPins(sketch, b) : IsInactive(p)
          /\ Occupied(b) => HeldFor(b) < Hold(sketch, b)

\* The buffer was full of one level when the input stepped to another, and
\* the filtered voltage is now inside a band that contains neither.
C16_Witness ==
    /\ changes = 1
    /\ Len(window) = Cfg(sketch).numReadings
    /\ Cardinality({ window[i] : i \in DOMAIN window }) = 2
    /\ \E b \in Bands : Occupied(b) /\ ~HoldsSample(b)

-----------------------------------------------------------------------------
(* C17 *)

\* Band b is pending at the start of a tick and its start time is the
\* non-zero value millis() had on the first in-band tick of the occupancy.
PendingSince(b) ==
    /\ run[b] > 0
    /\ ~Active(mcu, b)
    /\ StartTime(mcu, b) # U32(0)
    /\ Plus(StartTime(mcu, b), uptime - entry[b]) = mcu.millis

\* C17: a tick that finds a pending band still occupied latches it if and
\* only if the true time since its entry tick is at least the hold threshold,
\* also when millis() has wrapped to 0 between the two ticks.
C17_HoldAcrossWrap ==
    [][ pc = "loop" =>
          \A b \in Bands :
            (PendingSince(b) /\ InBand(sketch, b, mcu'.filteredVoltage)) =>
              (Active(mcu', b) <=> uptime - entry[b] >= Hold(sketch, b))
      ]_vars

\* A band entered before the wrap has been latched by a write made after it,
\* on the first tick on which the hold threshold had passed.
C17_Witness ==
    \E b \in Bands :
      /\ Active(mcu, b)
      /\ StartTime(mcu, b)[1] = Limb - 1
      /\ Len(log[b]) = 1
      /\ log[b][1].at[1] = 0
      /\ Between([at |-> StartTime(mcu, b)], log[b][1]) = Hold(sketch, b)

-----------------------------------------------------------------------------
(* C18 *)

\* C18: at every tick boundary, for every band: a set flag implies a non-zero
\* start time, a non-zero start time implies that the band's latest
\* evaluation saw the filtered voltage inside the band, and a band whose
\* latest evaluation saw it outside has its flag clear and its start time 0.
C18_BandStateConsistent ==
    pc = "loop" =>
      \A b \in Bands :
        /\ Active(mcu, b) => StartTime(mcu, b) # U32(0)
        /\ StartTime(mcu, b) # U32(0) =>
             (ticks > 0 /\ InBand(sketch, b, mcu.filteredVoltage) /\ Occupied(b))
        /\ ~InBand(sketch, b, mcu.filteredVoltage) =>
             (~Active(mcu, b) /\ StartTime(mcu, b) = U32(0))

\* One band has been latched and left, and is idle again, while another is
\* pending.
C18_Witness ==
    \E b, c \in Bands :
      /\ b # c
      /\ latches[b] = 1
      /\ ~Active(mcu, b)
      /\ StartTime(mcu, b) = U32(0)
      /\ ~Active(mcu, c)
      /\ StartTime(mcu, c) # U32(0)

====
